---- MODULE Spec2Model ----
(***************************************************************************)
(* elf2rpl (src/src/elf2rpl/main.cpp): the pipeline of main() over one     *)
(* ElfFile, from the construction of the ElfFile (line 786) to the return  *)
(* of main.  Each stage of the pipeline is one operator, translated from   *)
(* the stage's function, and one action that applies it.                   *)
(*                                                                         *)
(* Representation.                                                         *)
(*  - A 32-bit scalar that can reach the upper half of the address space   *)
(*    (addresses, relocation offsets and addends, symbol values, the       *)
(*    FILEINFO sizes) is a pair <<hi, lo>> of 16-bit limbs; Add32 and      *)
(*    Sub32 wrap modulo 2^32 as uint32_t does.                             *)
(*  - Payload lengths, file offsets and header sizes are naturals; the     *)
(*    inputs keep them far below 2^31.                                     *)
(*  - A payload (Section::data) is a record tagged by what its bytes       *)
(*    hold; Size gives its length in bytes.  A RELA payload is a whole     *)
(*    number of 12-byte entries, a SYMTAB payload a whole number of        *)
(*    16-byte symbols.                                                     *)
(*  - Section types, flags, relocation types and symbol types are named    *)
(*    by their identifier in elf.h instead of their number; a flags word   *)
(*    is the set of the flags it holds.                                    *)
(*  - Indices stored in the file (link, info, shstrndx, symbol index) are  *)
(*    0-based as in the code; sequences are 1-based, so index i is         *)
(*    element i + 1.                                                       *)
(***************************************************************************)
EXTENDS Integers, Sequences, FiniteSets, TLC

VARIABLES disk, env, elf, pc, exitCode, out, diag, ran, snap

vars == <<disk, env, elf, pc, exitCode, out, diag, ran, snap>>

---------------------------------------------------------------------------
(* 32-bit words *)

Limb == 256 * 256

Word(n) == <<(n \div Limb) % Limb, n % Limb>>

Add32(a, b) ==
  LET lo == a[2] + b[2]
      hi == a[1] + b[1] + (lo \div Limb)
  IN  <<hi % Limb, lo % Limb>>

Sub32(a, b) ==
  LET lo == a[2] - b[2]
      borrow == IF lo < 0 THEN 1 ELSE 0
      hi == a[1] - b[1] - borrow
  IN  <<(hi + Limb) % Limb, (lo + Limb) % Limb>>

Lt32(a, b) == a[1] < b[1] \/ (a[1] = b[1] /\ a[2] < b[2])

Le32(a, b) == a = b \/ Lt32(a, b)

Zero32 == Word(0)

\* align_up of utils.h on a natural: the smallest multiple of alignment
\* that is at least value (alignment a power of two).
align_up(value, alignment) ==
  ((value + (alignment - 1)) \div alignment) * alignment

\* align_up on a 32-bit word; alignment is a power of two that divides 2^16.
align_up32(value, alignment) ==
  LET lo == value[2] + (alignment - 1)
      carry == lo \div Limb
      low == lo % Limb
  IN  <<(value[1] + carry) % Limb, low - (low % alignment)>>

---------------------------------------------------------------------------
(* Constants of main.cpp and sizes of the fixed-layout records of elf.h *)

DeflateMinSectionSize == 24

CodeBaseAddress == <<512, 0>>       \* 0x02000000

DataBaseAddress == <<4096, 0>>      \* 0x10000000

LoadBaseAddress == <<49152, 0>>     \* 0xC0000000

SizeofHeader == 52

SizeofSectionHeader == 40

SizeofRela == 12

SizeofSymbol == 16

SizeofRplFileInfo == 96

---------------------------------------------------------------------------
(* Payloads *)

Empty == [kind |-> "raw", len |-> 0, id |-> 0]

Raw(n, i) == [kind |-> "raw", len |-> n, id |-> i]

RelaData(rs) == [kind |-> "rela", rels |-> rs]

SymData(ss) == [kind |-> "sym", syms |-> ss]

\* A string table: the strings it holds, in order, and its length in bytes.
\* A name offset is the ordinal of the string that starts there.
StrData(ss, n) == [kind |-> "str", strs |-> ss, len |-> n]

\* std::vector<char>::size()
Size(d) ==
  CASE d.kind = "raw" -> d.len
    [] d.kind = "str" -> d.len
    [] d.kind = "rela" -> Len(d.rels) * SizeofRela
    [] d.kind = "sym" -> Len(d.syms) * SizeofSymbol
    [] d.kind = "crcs" -> Len(d.crcs) * 4
    [] d.kind = "fileinfo" -> SizeofRplFileInfo
    [] d.kind = "deflated" -> 4 + d.clen

\* reinterpret_cast<elf::Rela *>(data.data()), data.size() / sizeof(elf::Rela)
Rels(d) == IF d.kind = "rela" THEN d.rels ELSE <<>>

\* reinterpret_cast<elf::Symbol *>(data.data()), data.size() / sizeof(elf::Symbol)
Syms(d) == IF d.kind = "sym" THEN d.syms ELSE <<>>

NumSymbols(d) == Size(d) \div SizeofSymbol

\* Writing entries back through the reinterpreted pointer.
WithRels(d, rs) == IF d.kind = "rela" THEN RelaData(rs) ELSE d

WithSyms(d, ss) == IF d.kind = "sym" THEN SymData(ss) ELSE d

\* zlib's crc32 over a payload: 0 for no bytes, else a value that
\* identifies the bytes.
ZeroCrc == [crc |-> Empty]

crc32(d) == IF Size(d) = 0 THEN ZeroCrc ELSE [crc |-> d]

\* Length of the zlib stream deflate() emits for a payload at level 6: a
\* 2-byte header, at least one block and the 4-byte adler32.
DeflatedLen(d) == 8 + (Size(d) \div 4)

---------------------------------------------------------------------------
(* Sections *)

\* A line of output of fmt::print.
Diag(msg) == [msg |-> msg, type |-> "", index |-> -1]

RANGE(s) == {s[i] : i \in DOMAIN s}

\* file.sections[i]
At(sections, i) == sections[i + 1]

ValidRelocations ==
  {"R_PPC_NONE", "R_PPC_ADDR32", "R_PPC_ADDR16_LO", "R_PPC_ADDR16_HI",
   "R_PPC_ADDR16_HA", "R_PPC_REL24", "R_PPC_REL14", "R_PPC_DTPMOD32",
   "R_PPC_DTPREL32", "R_PPC_EMB_SDA21", "R_PPC_EMB_RELSDA",
   "R_PPC_DIAB_SDA21_LO", "R_PPC_DIAB_SDA21_HI", "R_PPC_DIAB_SDA21_HA",
   "R_PPC_DIAB_RELSDA_LO", "R_PPC_DIAB_RELSDA_HI", "R_PPC_DIAB_RELSDA_HA"}

\* int getSectionIndex(file, name): index of the first section of that
\* name, -1 when there is none.
getSectionIndex(sections, name) ==
  IF \E i \in DOMAIN sections : sections[i].name = name
  THEN (CHOOSE i \in DOMAIN sections :
          /\ sections[i].name = name
          /\ \A j \in 1..(i - 1) : sections[j].name # name) - 1
  ELSE -1

\* bool getSymbol(section, index, symbol)
getSymbol(section, index) == index < NumSymbols(section.data)

---------------------------------------------------------------------------
(* readElf, lines 64-129 *)

NoHeader ==
  [magic |-> "unset", fileClass |-> "unset", encoding |-> "unset",
   machine |-> "unset", elfVersion |-> "unset", abi |-> "unset",
   type |-> "unset", shoff |-> 0, shnum |-> 0, shstrndx |-> 0]

NoFile == [header |-> NoHeader, sections |-> <<>>]

\* The in-memory Section of one section-header entry of the input: the
\* header, and the payload unless size is zero or the type is NOBITS.
LoadSection(e) ==
  [name |-> "", nameOff |-> e.name, type |-> e.type, flags |-> e.flags,
   addr |-> e.addr, offset |-> e.offset, size |-> e.size, link |-> e.link,
   info |-> e.info, addralign |-> e.addralign, entsize |-> e.entsize,
   data |-> IF e.size = 0 \/ e.type = "SHT_NOBITS" THEN Empty ELSE e.body]

\* shStrTab + header.name: the string that starts at that offset.
NameAt(strtab, off) ==
  IF strtab.kind = "str" /\ off + 1 \in DOMAIN strtab.strs
  THEN strtab.strs[off + 1]
  ELSE ""

IdentError(h) ==
  CASE h.magic # "HeaderMagic" -> "Invalid ELF magic header"
    [] h.magic = "HeaderMagic" /\ h.fileClass # "ELFCLASS32" ->
         "Unexpected ELF file class"
    [] h.magic = "HeaderMagic" /\ h.fileClass = "ELFCLASS32"
         /\ h.encoding # "ELFDATA2MSB" -> "Unexpected ELF encoding"
    [] h.magic = "HeaderMagic" /\ h.fileClass = "ELFCLASS32"
         /\ h.encoding = "ELFDATA2MSB" /\ h.machine # "EM_PPC" ->
         "Unexpected ELF machine type"
    [] h.magic = "HeaderMagic" /\ h.fileClass = "ELFCLASS32"
         /\ h.encoding = "ELFDATA2MSB" /\ h.machine = "EM_PPC"
         /\ h.elfVersion # "EV_CURRENT" -> "Unexpected ELF version"
    [] OTHER -> ""

readElf(d, canOpen) ==
  IF ~canOpen
  THEN [ok |-> FALSE, file |-> NoFile, diag |-> <<Diag("Could not open for reading")>>]
  ELSE IF IdentError(d.header) # ""
  THEN [ok |-> FALSE, file |-> [header |-> d.header, sections |-> <<>>],
        diag |-> <<Diag(IdentError(d.header))>>]
  ELSE
    LET loaded == [i \in DOMAIN d.sections |-> LoadSection(d.sections[i])]
        shStrTab == At(loaded, d.header.shstrndx).data
        named == [i \in DOMAIN loaded |->
                    [loaded[i] EXCEPT !.name = NameAt(shStrTab, loaded[i].nameOff)]]
    IN  [ok |-> TRUE, file |-> [header |-> d.header, sections |-> named],
         diag |-> <<>>]

---------------------------------------------------------------------------
(* fixRelocations, lines 284-375 *)

Unsupported(type) ==
  [msg |-> "ERROR: Unsupported relocation type", type |-> type, index |-> -1]

NoSymbol(index) ==
  [msg |-> "ERROR: Could not find symbol for fixing a R_PPC_REL32 relocation",
   type |-> "", index |-> index]

\* Lines 346-349: the current relocation as R_PPC_GHS_REL16_HI.
RewrittenHi(rel) ==
  [sym |-> rel.sym, type |-> "R_PPC_GHS_REL16_HI", addend |-> rel.addend,
   offset |-> rel.offset]

\* NewLo with the addend copied as it is.
NewLoSameAddend(rel) ==
  [sym |-> rel.sym, type |-> "R_PPC_GHS_REL16_LO", addend |-> rel.addend,
   offset |-> Add32(rel.offset, Word(2))]

\* Lines 351-354: the new R_PPC_GHS_REL16_LO.
NewLo(rel) ==
  [sym |-> rel.sym, type |-> "R_PPC_GHS_REL16_LO",
   addend |-> Add32(rel.addend, Word(2)),
   offset |-> Add32(rel.offset, Word(2))]

\* AlreadyReported that never finds the type.
AlreadyReportedNever(unsupportedTypes, type) == FALSE

\* Line 362: unsupportedTypes.count(type).
AlreadyReported(unsupportedTypes, type) == type \in unsupportedTypes

\* One iteration of the loop over the entries of a RELA section (lines
\* 305-367).  w is the walk so far: the entries as rewritten in place, the
\* new relocations, the set of unsupported types, result and the
\* diagnostics printed.
FixEntry(w, i, symbolSection) ==
  LET rel == w.rels[i]
      index == rel.sym
      type == rel.type
  IN  IF type \in ValidRelocations THEN w
      ELSE IF type = "R_PPC_REL32"
      THEN IF ~getSymbol(symbolSection, index)
           THEN [w EXCEPT !.result = FALSE,
                          !.diag = Append(@, NoSymbol(index))]
           ELSE [w EXCEPT !.rels[i] = RewrittenHi(rel),
                          !.newRelocations = Append(@, NewLo(rel))]
      ELSE IF ~AlreadyReported(w.unsupportedTypes, type)
      THEN [w EXCEPT !.unsupportedTypes = @ \cup {type},
                     !.diag = Append(@, Unsupported(type))]
      ELSE w

RECURSIVE FixEntries(_, _, _)
FixEntries(w, i, symbolSection) ==
  IF i > Len(w.rels) THEN w
  ELSE FixEntries(FixEntry(w, i, symbolSection), i + 1, symbolSection)

\* The body of the loop over the sections (lines 290-372) for section k
\* (1-based).  st is the stage so far: sections, unsupportedTypes, result,
\* diag.
FixSection(st, k) ==
  LET section == st.sections[k]
  IN  IF section.type # "SHT_RELA" THEN st
      ELSE
        LET symbolSection == At(st.sections, section.link)
            w == FixEntries([rels |-> Rels(section.data), newRelocations |-> <<>>,
                             unsupportedTypes |-> st.unsupportedTypes,
                             result |-> st.result, diag |-> st.diag],
                            1, symbolSection)
            data == IF w.newRelocations = <<>> /\ section.data.kind # "rela"
                    THEN section.data
                    ELSE RelaData(w.rels \o w.newRelocations)
        IN  [sections |-> [st.sections EXCEPT ![k] =
                             [section EXCEPT !.flags = {}, !.data = data]],
             unsupportedTypes |-> w.unsupportedTypes,
             result |-> w.result,
             diag |-> w.diag]

RECURSIVE FixSections(_, _)
FixSections(st, k) ==
  IF k > Len(st.sections) THEN st
  ELSE FixSections(FixSection(st, k), k + 1)

\* RelocationsOk that forgets the unsupported types.
RelocationsOkResultOnly(st) == st.result

\* Line 374: the value fixRelocations returns.
RelocationsOk(st) == st.result /\ Cardinality(st.unsupportedTypes) = 0

fixRelocations(file) ==
  LET st == FixSections([sections |-> file.sections, unsupportedTypes |-> {},
                         result |-> TRUE, diag |-> <<>>], 1)
  IN  [ok |-> RelocationsOk(st),
       file |-> [file EXCEPT !.sections = st.sections],
       diag |-> st.diag]

---------------------------------------------------------------------------
(* relocateSection, lines 409-464 *)

\* InOldRange with the end address left out of the range.
InOldRangeExclusive(value, oldSectionAddress, sectionSize) ==
  LET size == Word(sectionSize)
      lo == oldSectionAddress[2] + size[2]
      hi == oldSectionAddress[1] + size[1] + (lo \div Limb)
  IN  /\ Le32(oldSectionAddress, value)
      /\ \/ hi >= Limb
         \/ Lt32(value, <<hi, lo % Limb>>)

\* value >= oldSectionAddress && value <= oldSectionAddressEnd, where
\* oldSectionAddressEnd = header.addr + sectionSize is computed in size_t
\* and so does not wrap at 2^32.
InOldRange(value, oldSectionAddress, sectionSize) ==
  LET size == Word(sectionSize)
      lo == oldSectionAddress[2] + size[2]
      hi == oldSectionAddress[1] + size[1] + (lo \div Limb)
  IN  /\ Le32(oldSectionAddress, value)
      /\ \/ hi >= Limb
         \/ Le32(value, <<hi, lo % Limb>>)

Translate(value, oldSectionAddress, newSectionAddress) ==
  Add32(Sub32(value, oldSectionAddress), newSectionAddress)

RelocatedSymbol(sym, oldAddr, sectionSize, newAddr) ==
  IF sym.type \notin {"STT_OBJECT", "STT_FUNC", "STT_SECTION"} THEN sym
  ELSE IF InOldRange(sym.value, oldAddr, sectionSize)
  THEN [sym EXCEPT !.value = Translate(sym.value, oldAddr, newAddr)]
  ELSE sym

RelocatedRela(rel, oldAddr, sectionSize, newAddr) ==
  IF InOldRange(rel.offset, oldAddr, sectionSize)
  THEN [rel EXCEPT !.offset = Translate(rel.offset, oldAddr, newAddr)]
  ELSE rel

\* sections after relocateSection(file, *sections[sectionIndex],
\* sectionIndex, newSectionAddress); sectionIndex is 0-based.
relocateSection(sections, sectionIndex, newSectionAddress) ==
  LET section == At(sections, sectionIndex)
      sectionSize == IF Size(section.data) # 0 THEN Size(section.data)
                     ELSE section.size
      oldSectionAddress == section.addr
      symbolsDone ==
        [k \in DOMAIN sections |->
           IF sections[k].type # "SHT_SYMTAB" THEN sections[k]
           ELSE [sections[k] EXCEPT !.data =
                   WithSyms(@, [i \in DOMAIN Syms(@) |->
                      RelocatedSymbol(Syms(@)[i], oldSectionAddress,
                                      sectionSize, newSectionAddress)])]]
      relasDone ==
        [k \in DOMAIN symbolsDone |->
           IF symbolsDone[k].type # "SHT_RELA"
              \/ symbolsDone[k].info # sectionIndex
           THEN symbolsDone[k]
           ELSE [symbolsDone[k] EXCEPT !.data =
                   WithRels(@, [i \in DOMAIN Rels(@) |->
                      RelocatedRela(Rels(@)[i], oldSectionAddress,
                                    sectionSize, newSectionAddress)])]]
  IN  [relasDone EXCEPT ![sectionIndex + 1].addr = newSectionAddress]

---------------------------------------------------------------------------
(* fixLoaderVirtualAddresses, lines 473-496 *)

\* Lines 476-481: the running loadMax after sections 1..k.
RECURSIVE LoadMaxUpTo(_, _)
LoadMaxUpTo(sections, k) ==
  IF k = 0 THEN LoadBaseAddress
  ELSE LET loadMax == LoadMaxUpTo(sections, k - 1)
       IN  IF Le32(loadMax, sections[k].addr)
           THEN Add32(sections[k].addr, Word(Size(sections[k].data)))
           ELSE loadMax

InitialLoadMax(sections) == LoadMaxUpTo(sections, Len(sections))

\* MoveSection without the advance of loadMax of line 491.
MoveSectionKeepsLoadMax(st, i) ==
  LET section == At(st.sections, i)
  IN  IF section.type \in {"SHT_SYMTAB", "SHT_STRTAB"}
      THEN LET moved == relocateSection(st.sections, i,
                          align_up32(st.loadMax, section.addralign))
           IN  [sections |-> [moved EXCEPT ![i + 1].flags = @ \cup {"SHF_ALLOC"}],
                loadMax |-> st.loadMax]
      ELSE st

\* Lines 484-493: one iteration of the loop, for index i (0-based).
MoveSection(st, i) ==
  LET section == At(st.sections, i)
  IN  IF section.type \in {"SHT_SYMTAB", "SHT_STRTAB"}
      THEN LET moved == relocateSection(st.sections, i,
                          align_up32(st.loadMax, section.addralign))
           IN  [sections |-> [moved EXCEPT ![i + 1].flags = @ \cup {"SHF_ALLOC"}],
                loadMax |-> Add32(st.loadMax, Word(Size(section.data)))]
      ELSE st

RECURSIVE MoveSections(_, _)
MoveSections(st, i) ==
  IF i >= Len(st.sections) THEN st
  ELSE MoveSections(MoveSection(st, i), i + 1)

fixLoaderVirtualAddresses(file) ==
  LET st == MoveSections([sections |-> file.sections,
                          loadMax |-> InitialLoadMax(file.sections)], 0)
  IN  [ok |-> TRUE, file |-> [file EXCEPT !.sections = st.sections],
       diag |-> <<>>]

---------------------------------------------------------------------------
(* generateFileInfoSection, lines 135-218 *)

InfoPreset(flags) ==
  [version |-> "0xCAFE0402", textSize |-> Zero32, textAlign |-> 32,
   dataSize |-> Zero32, dataAlign |-> 4096, loadSize |-> Zero32,
   loadAlign |-> 4, tempSize |-> Zero32, stackSize |-> "0x10000",
   heapSize |-> "0x8000", flags |-> flags, minVersion |-> "0x5078",
   compressionLevel |-> 6, cafeSdkVersion |-> "0x5335",
   cafeSdkRevision |-> "0x10D4B"]

\* Lines 167-196: one iteration of the loop over the sections.
CountSection(info, section) ==
  LET size == IF section.type = "SHT_NOBITS" THEN section.size
              ELSE Size(section.data)
      end == Add32(section.addr, Word(section.size))
  IN  IF Le32(CodeBaseAddress, section.addr) /\ Lt32(section.addr, DataBaseAddress)
      THEN LET val == Sub32(end, CodeBaseAddress)
           IN  IF Lt32(info.textSize, val) THEN [info EXCEPT !.textSize = val]
               ELSE info
      ELSE IF Le32(DataBaseAddress, section.addr)
              /\ Lt32(section.addr, LoadBaseAddress)
      THEN LET val == Sub32(end, DataBaseAddress)
           IN  IF Lt32(info.dataSize, val) THEN [info EXCEPT !.dataSize = val]
               ELSE info
      ELSE IF Le32(LoadBaseAddress, section.addr)
      THEN LET val == Sub32(end, LoadBaseAddress)
           IN  IF Lt32(info.loadSize, val) THEN [info EXCEPT !.loadSize = val]
               ELSE info
      ELSE IF section.addr = Zero32
              /\ section.type # "SHT_RPL_CRCS"
              /\ section.type # "SHT_RPL_FILEINFO"
      THEN [info EXCEPT !.tempSize = Add32(@, Word(size + 128))]
      ELSE info

RECURSIVE CountSections(_, _, _)
CountSections(info, sections, k) ==
  IF k > Len(sections) THEN info
  ELSE CountSections(CountSection(info, sections[k]), sections, k + 1)

FileInfo(sections, flags) ==
  LET info == CountSections(InfoPreset(flags), sections, 1)
  IN  [info EXCEPT !.textSize = align_up32(@, info.textAlign),
                   !.dataSize = align_up32(@, info.dataAlign),
                   !.loadSize = align_up32(@, info.loadAlign)]

generateFileInfoSection(file, flags) ==
  LET section ==
        [name |-> "", nameOff |-> 0, type |-> "SHT_RPL_FILEINFO", flags |-> {},
         addr |-> Zero32, offset |-> 0, size |-> 0, link |-> 0, info |-> 0,
         addralign |-> 4, entsize |-> 0,
         data |-> [kind |-> "fileinfo", info |-> FileInfo(file.sections, flags)]]
  IN  [ok |-> TRUE, file |-> [file EXCEPT !.sections = Append(@, section)],
       diag |-> <<>>]

---------------------------------------------------------------------------
(* generateCrcSection, lines 224-260 *)

\* crcs.insert(crcs.end() - 1, 0) and sections.insert(sections.end() - 1, s)
InsertBeforeLast(seq, x) ==
  SubSeq(seq, 1, Len(seq) - 1) \o <<x>> \o SubSeq(seq, Len(seq), Len(seq))

\* CrcTable with the zero entry put last.
CrcTableZeroLast(sections) ==
  Append([k \in DOMAIN sections |-> crc32(sections[k].data)], ZeroCrc)

\* Lines 227-240.
CrcTable(sections) ==
  InsertBeforeLast([k \in DOMAIN sections |-> crc32(sections[k].data)], ZeroCrc)

generateCrcSection(file) ==
  LET section ==
        [name |-> "", nameOff |-> 0, type |-> "SHT_RPL_CRCS", flags |-> {},
         addr |-> Zero32, offset |-> 0, size |-> 0, link |-> 0, info |-> 0,
         addralign |-> 4, entsize |-> 4,
         data |-> [kind |-> "crcs", crcs |-> CrcTable(file.sections)]]
  IN  [ok |-> TRUE,
       file |-> [file EXCEPT !.sections = InsertBeforeLast(@, section)],
       diag |-> <<>>]

---------------------------------------------------------------------------
(* fixFileHeader, lines 381-403 *)

\* static_cast<uint16_t>(int)
ToUint16(n) == (n + Limb) % Limb

fixFileHeader(file) ==
  [ok |-> TRUE,
   file |-> [file EXCEPT !.header =
      [magic |-> "HeaderMagic", fileClass |-> "ELFCLASS32",
       encoding |-> "ELFDATA2MSB", machine |-> "EM_PPC",
       elfVersion |-> "EV_CURRENT", abi |-> "EABI_CAFE", type |-> "0xFE01",
       shoff |-> align_up(SizeofHeader, 64),
       shnum |-> ToUint16(Len(file.sections)),
       shstrndx |-> ToUint16(getSectionIndex(file.sections, ".shstrtab"))]],
   diag |-> <<>>]

---------------------------------------------------------------------------
(* deflateSections, lines 502-556 *)

\* Lines 515-551: the 4-byte big-endian inflated size, then the stream.
\* inflated is the sentinel, orig the bytes the stream inflates to.
Deflated(data) ==
  [kind |-> "deflated", inflated |-> Size(data), orig |-> data,
   clen |-> DeflatedLen(data)]

SkipsDeflate(section) ==
  \/ Size(section.data) < DeflateMinSectionSize
  \/ section.type = "SHT_RPL_CRCS"
  \/ section.type = "SHT_RPL_FILEINFO"

\* The loop over the sections from section k on; zOk tells whether zlib's
\* deflate works (it reports Z_STREAM_ERROR when deflateInit could not set
\* the stream up).
RECURSIVE DeflateFrom(_, _, _)
DeflateFrom(sections, k, zOk) ==
  IF k > Len(sections) THEN [ok |-> TRUE, sections |-> sections]
  ELSE IF SkipsDeflate(sections[k]) THEN DeflateFrom(sections, k + 1, zOk)
  ELSE IF ~zOk THEN [ok |-> FALSE, sections |-> sections]
  ELSE DeflateFrom([sections EXCEPT ![k].data = Deflated(@),
                                    ![k].flags = @ \cup {"SHF_DEFLATED"}],
                   k + 1, zOk)

deflateSections(file, zOk) ==
  LET r == DeflateFrom(file.sections, 1, zOk)
  IN  [ok |-> r.ok, file |-> [file EXCEPT !.sections = r.sections],
       diag |-> <<>>]

---------------------------------------------------------------------------
(* calculateSectionOffsets, lines 566-704 *)

\* Lines 572-578.
ClearNoBits(sections) ==
  [k \in DOMAIN sections |->
     IF sections[k].type \in {"SHT_NOBITS", "SHT_NULL"}
     THEN [sections[k] EXCEPT !.offset = 0, !.data = Empty]
     ELSE sections[k]]

\* The guard that opens the loops of the data, read, text and temp phases.
Skipped(section) ==
  \/ section.size = 0
  \/ section.type \in {"SHT_RPL_FILEINFO", "SHT_RPL_IMPORTS", "SHT_RPL_CRCS",
                       "SHT_NOBITS"}

IsCrcs(section) == section.type = "SHT_RPL_CRCS"

IsFileInfo(section) == section.type = "SHT_RPL_FILEINFO"

IsData(section) ==
  /\ ~Skipped(section)
  /\ "SHF_EXECINSTR" \notin section.flags
  /\ "SHF_WRITE" \in section.flags
  /\ "SHF_ALLOC" \in section.flags

IsRead(section) ==
  /\ ~Skipped(section)
  /\ ("SHF_EXECINSTR" \notin section.flags \/ section.type = "SHT_RPL_EXPORTS")
  /\ "SHF_WRITE" \notin section.flags
  /\ "SHF_ALLOC" \in section.flags

IsImports(section) == section.type = "SHT_RPL_IMPORTS"

IsText(section) ==
  /\ ~Skipped(section)
  /\ "SHF_EXECINSTR" \in section.flags
  /\ section.type # "SHT_RPL_EXPORTS"

IsTemp(section) ==
  /\ ~Skipped(section)
  /\ "SHF_EXECINSTR" \notin section.flags
  /\ "SHF_ALLOC" \notin section.flags

\* The phases in the order of their loops (lines 580-689).
PhaseOrder == <<"crcs", "fileinfo", "data", "read", "imports", "text", "temp">>

Matches(phase, section) ==
  CASE phase = "crcs" -> IsCrcs(section)
    [] phase = "fileinfo" -> IsFileInfo(section)
    [] phase = "data" -> IsData(section)
    [] phase = "read" -> IsRead(section)
    [] phase = "imports" -> IsImports(section)
    [] phase = "text" -> IsText(section)
    [] phase = "temp" -> IsTemp(section)

\* One loop of a phase, from section k on.  st holds the sections and the
\* running offset.
RECURSIVE Emit(_, _, _)
Emit(st, phase, k) ==
  IF k > Len(st.sections) THEN st
  ELSE IF Matches(phase, st.sections[k])
  THEN LET size == Size(st.sections[k].data)
       IN  Emit([sections |-> [st.sections EXCEPT ![k].offset = st.offset,
                                                  ![k].size = size],
                 offset |-> st.offset + size],
                phase, k + 1)
  ELSE Emit(st, phase, k + 1)

RECURSIVE Phases(_, _)
Phases(st, p) ==
  IF p > Len(PhaseOrder) THEN st
  ELSE Phases(Emit(st, PhaseOrder[p], 1), p + 1)

\* Lines 569-570.
FirstOffset(file) ==
  file.header.shoff
    + align_up(Len(file.sections) * SizeofSectionHeader, 64)

\* Lines 691-701: the sections (0-based) the final loop rejects.
Unplaced(sections) ==
  {k - 1 : k \in {j \in DOMAIN sections :
                    /\ sections[j].offset = 0
                    /\ sections[j].type # "SHT_NULL"
                    /\ sections[j].type # "SHT_NOBITS"}}

Min(S) == CHOOSE x \in S : \A y \in S : x <= y

calculateSectionOffsets(file) ==
  LET st == Phases([sections |-> ClearNoBits(file.sections),
                    offset |-> FirstOffset(file)], 1)
      bad == Unplaced(st.sections)
  IN  [ok |-> bad = {},
       file |-> [file EXCEPT !.sections = st.sections],
       diag |-> IF bad = {} THEN <<>>
                ELSE <<[msg |-> "Failed to calculate offset for section",
                        type |-> "", index |-> Min(bad)]>>]

---------------------------------------------------------------------------
(* writeRpl, lines 710-742 *)

NoOutput == [written |-> FALSE, header |-> NoHeader, sections |-> <<>>]

\* The output file: the file header, the section headers in section order
\* and, for each section with a payload, the payload at header.offset.
writeRpl(file, canOpen) ==
  IF ~canOpen
  THEN [ok |-> FALSE, output |-> NoOutput,
        diag |-> <<Diag("Could not open for writing")>>]
  ELSE [ok |-> TRUE,
        output |-> [written |-> TRUE, header |-> file.header,
                    sections |-> file.sections],
        diag |-> <<>>]

---------------------------------------------------------------------------
(* main, lines 785-833 *)

Stages ==
  <<"readElf", "fixRelocations", "fixLoaderVirtualAddresses",
    "generateFileInfoSection", "generateCrcSection", "fixFileHeader",
    "deflateSections", "calculateSectionOffsets", "writeRpl">>

Failed(stage) == [msg |-> "ERROR: failed.", type |-> stage, index |-> -1]

\* OnResult that goes on after a failure.
OnResultIgnored(ok, next) == next

\* Where main goes after a stage: return -1 when it failed.
OnResult(ok, next) == IF ok THEN next ELSE "exit"

\* if (!stage(elf)) { print "ERROR: <stage> failed."; return -1; }, and
\* after the last stage return 0.  r is what the stage returned; snap
\* records the sections the stage started from and ran the stages called.
Call(stage, r, next) ==
  /\ pc = stage
  /\ elf' = r.file
  /\ ran' = Append(ran, stage)
  /\ snap' = [snap EXCEPT ![stage] = elf.sections]
  /\ diag' = diag \o r.diag
               \o (IF r.ok THEN <<>> ELSE <<Failed(stage)>>)
  /\ pc' = OnResult(r.ok, next)
  /\ exitCode' = IF pc' # "exit" THEN exitCode
                 ELSE IF r.ok THEN "0" ELSE "-1"
  /\ UNCHANGED <<disk, env>>

ReadElf ==
  /\ Call("readElf", readElf(disk, env.openIn), "fixRelocations")
  /\ UNCHANGED out

FixRelocations ==
  /\ Call("fixRelocations", fixRelocations(elf), "fixLoaderVirtualAddresses")
  /\ UNCHANGED out

FixLoaderVirtualAddresses ==
  /\ Call("fixLoaderVirtualAddresses", fixLoaderVirtualAddresses(elf),
          "generateFileInfoSection")
  /\ UNCHANGED out

GenerateFileInfoSection ==
  /\ Call("generateFileInfoSection",
          generateFileInfoSection(elf, IF env.isRpl THEN {} ELSE {"RPL_IS_RPX"}),
          "generateCrcSection")
  /\ UNCHANGED out

GenerateCrcSection ==
  /\ Call("generateCrcSection", generateCrcSection(elf), "fixFileHeader")
  /\ UNCHANGED out

FixFileHeader ==
  /\ Call("fixFileHeader", fixFileHeader(elf), "deflateSections")
  /\ UNCHANGED out

DeflateSections ==
  /\ Call("deflateSections", deflateSections(elf, env.zOk),
          "calculateSectionOffsets")
  /\ UNCHANGED out

CalculateSectionOffsets ==
  /\ Call("calculateSectionOffsets", calculateSectionOffsets(elf), "writeRpl")
  /\ UNCHANGED out

WriteRpl ==
  LET r == writeRpl(elf, env.openOut)
  IN  /\ Call("writeRpl", [ok |-> r.ok, file |-> elf, diag |-> r.diag], "exit")
      /\ out' = r.output

Next ==
  \/ ReadElf
  \/ FixRelocations
  \/ FixLoaderVirtualAddresses
  \/ GenerateFileInfoSection
  \/ GenerateCrcSection
  \/ FixFileHeader
  \/ DeflateSections
  \/ CalculateSectionOffsets
  \/ WriteRpl

---------------------------------------------------------------------------
(* Inputs: the ELF file on disk and the environment of the run *)

\* Every input keeps the code inside defined behaviour: link, info and
\* shstrndx name a section of the file (lines 104, 298 and 299 index the
\* section vector unchecked), each payload lies within the file, and no
\* addend is 0x7FFFFFFE or 0x7FFFFFFF (line 352 adds 2 to a signed value).

MaxRels == 2

MaxSyms == 2

SeqsUpTo(S, n) == UNION {[1..k -> S] : k \in 0..n}

GoodHeader(shnum, shstrndx) ==
  [magic |-> "HeaderMagic", fileClass |-> "ELFCLASS32",
   encoding |-> "ELFDATA2MSB", machine |-> "EM_PPC",
   elfVersion |-> "EV_CURRENT", abi |-> "ELFOSABI_NONE", type |-> "ET_REL",
   shoff |-> 4096, shnum |-> shnum, shstrndx |-> shstrndx]

\* A section-header entry and the bytes of the file at its offset.
Entry(nm, type, flags, addr, offset, body) ==
  [nm |-> nm, type |-> type, flags |-> flags, addr |-> addr,
   offset |-> offset, size |-> Size(body), link |-> 0, info |-> 0,
   addralign |-> 1, entsize |-> 0, body |-> body]

NullEntry == Entry("", "SHT_NULL", {}, Zero32, 0, Empty)

TextEntry ==
  Entry(".text", "SHT_PROGBITS", {"SHF_ALLOC", "SHF_EXECINSTR"},
        CodeBaseAddress, 256, Raw(64, 1))

\* The section-name string table; its strings are filled in by Disk.
ShStrTabEntry(nm) == Entry(nm, "SHT_STRTAB", {}, Zero32, 1024, Raw(40, 0))

\* The file whose section-header table is secs and whose section-name
\* string table is section shstrndx (0-based): string k of the table is the
\* name of section k, and header.name of section k is its offset.
Disk(header, secs, shstrndx) ==
  [header |-> [header EXCEPT !.shnum = Len(secs), !.shstrndx = shstrndx],
   sections |->
     [k \in DOMAIN secs |->
        [name |-> k - 1, type |-> secs[k].type, flags |-> secs[k].flags,
         addr |-> secs[k].addr, offset |-> secs[k].offset,
         size |-> secs[k].size, link |-> secs[k].link, info |-> secs[k].info,
         addralign |-> secs[k].addralign, entsize |-> secs[k].entsize,
         body |-> IF k - 1 = shstrndx
                  THEN StrData([j \in DOMAIN secs |-> secs[j].nm], secs[k].size)
                  ELSE secs[k].body]]]

GoodDisk(secs) == Disk(GoodHeader(0, 0), secs, Len(secs) - 1)

GoodEnv == [openIn |-> TRUE, zOk |-> TRUE, openOut |-> TRUE, isRpl |-> FALSE]

Rela(type, sym, offset, addend) ==
  [sym |-> sym, type |-> type, addend |-> addend, offset |-> offset]

Symbol(type, value) == [type |-> type, value |-> value]

\* --- relocation inputs: .text, a symbol table of four symbols, one RELA
\* section with up to MaxRels entries and an optional second RELA section.

RelaChoices ==
  {Rela("R_PPC_ADDR32", 0, Word(16), Zero32),
   Rela("R_PPC_REL32", 3, Word(16), Word(32)),
   Rela("R_PPC_REL32", 0, <<65535, 65534>>, <<65535, 65534>>),
   Rela("R_PPC_REL32", 4, Word(16), Word(32)),
   Rela("R_PPC_GOT16", 1, Word(20), Zero32),
   Rela("R_PPC_ADDR24", 1, Word(24), Zero32)}

SecondRelaChoices ==
  {<<>>,
   <<Rela("R_PPC_GOT16", 0, Word(8), Zero32)>>,
   <<Rela("R_PPC_REL32", 1, Word(8), Word(4))>>,
   <<Rela("R_PPC_ADDR24", 0, Word(8), Zero32)>>}

FourSymbols ==
  <<Symbol("STT_NOTYPE", Zero32), Symbol("STT_SECTION", CodeBaseAddress),
    Symbol("STT_FUNC", Add32(CodeBaseAddress, Word(16))),
    Symbol("STT_OBJECT", Add32(CodeBaseAddress, Word(32)))>>

SymTabEntry(syms) ==
  [Entry(".symtab", "SHT_SYMTAB", {}, Zero32, 512, SymData(syms))
     EXCEPT !.link = 0, !.addralign = 4, !.entsize = SizeofSymbol]

RelaEntry(nm, addr, rels, link, info) ==
  [Entry(nm, "SHT_RELA", {"SHF_INFO_LINK"}, addr, 768, RelaData(rels))
     EXCEPT !.link = link, !.info = info, !.addralign = 4,
            !.entsize = SizeofRela]

RelocDisks ==
  {GoodDisk(<<NullEntry, TextEntry, SymTabEntry(FourSymbols),
              RelaEntry(".rela.text", addr, rels, 2, 1)>>
            \o (IF second = <<>> THEN <<>>
                ELSE <<RelaEntry(".rela.data", Zero32, second, 2, 1)>>)
            \o <<ShStrTabEntry(".shstrtab")>>) :
     addr \in {Zero32, Add32(CodeBaseAddress, Word(64))},
     rels \in SeqsUpTo(RelaChoices, MaxRels) \ {<<>>},
     second \in SecondRelaChoices}

\* --- address inputs: one section in one of the windows, a symbol table
\* of up to MaxSyms symbols, .strtab and .shstrtab.

WindowChoices ==
  {Zero32, CodeBaseAddress, Add32(DataBaseAddress, Word(4096)), LoadBaseAddress}

SymbolChoices ==
  {Symbol("STT_OBJECT", Zero32),
   Symbol("STT_NOTYPE", Zero32),
   Symbol("STT_SECTION", Word(32)),
   Symbol("STT_FUNC", Add32(CodeBaseAddress, Word(16))),
   Symbol("STT_OBJECT", Add32(LoadBaseAddress, Word(16)))}

StrTabEntry(addr) == Entry(".strtab", "SHT_STRTAB", {}, addr, 640, Raw(32, 2))

WindowEntry(type, addr) ==
  [Entry(".sect", type, {"SHF_ALLOC", "SHF_WRITE"}, addr, 256,
         IF type = "SHT_NOBITS" THEN Empty ELSE Raw(100, 3))
     EXCEPT !.size = 100]

AddrDisks ==
  {GoodDisk(<<NullEntry, WindowEntry(type, addr), SymTabEntry(syms),
              StrTabEntry(strAddr), ShStrTabEntry(".shstrtab")>>) :
     type \in {"SHT_PROGBITS", "SHT_NOBITS"},
     addr \in WindowChoices,
     syms \in SeqsUpTo(SymbolChoices, MaxSyms) \ {<<>>},
     strAddr \in {Zero32, LoadBaseAddress}}

\* --- layout inputs: .data and one section of every type, flag set, size
\* and file offset.

DataEntry ==
  Entry(".data", "SHT_PROGBITS", {"SHF_ALLOC", "SHF_WRITE"}, DataBaseAddress,
        384, Raw(32, 5))

LayoutEntry(type, flags, size, offset) ==
  [Entry(".any", type, flags, Zero32, offset,
         IF type = "SHT_NOBITS" THEN Empty ELSE Raw(size, 4))
     EXCEPT !.size = size]

LayoutDisks ==
  {GoodDisk(<<NullEntry, LayoutEntry(type, flags \cup deflated, size, offset),
              DataEntry, ShStrTabEntry(".shstrtab")>>) :
     type \in {"SHT_NULL", "SHT_PROGBITS", "SHT_NOBITS", "SHT_RPL_EXPORTS",
               "SHT_RPL_IMPORTS"},
     flags \in SUBSET {"SHF_WRITE", "SHF_ALLOC", "SHF_EXECINSTR"},
     deflated \in {{}, {"SHF_DEFLATED"}},
     size \in {0, 16, 32},
     offset \in {0, 64, 344}}

\* --- symbol-table inputs: .text, a symbol table and .shstrtab in every
\* section order, with and without the leading null section; the symbol
\* table has every alignment of AlignChoices.

AlignChoices == {1, 4, 32}

Orders(S) ==
  {s \in [1..Cardinality(S) -> S] : \A i, j \in DOMAIN s : i # j => s[i] # s[j]}

IndexOfName(secs, nm) == (CHOOSE k \in DOMAIN secs : secs[k].nm = nm) - 1

AlignedSymTabEntry(syms, align) ==
  [SymTabEntry(syms) EXCEPT !.addralign = align]

SymTabDisks ==
  {Disk(GoodHeader(0, 0), lead \o secs, IndexOfName(lead \o secs, ".shstrtab")) :
     lead \in {<<>>, <<NullEntry>>},
     secs \in UNION {Orders({TextEntry, AlignedSymTabEntry(FourSymbols, align),
                             ShStrTabEntry(".shstrtab")}) :
                       align \in AlignChoices}}

\* --- loader inputs: two sections around the loader base address, of
\* every size of HighSizes, a string table, a symbol table and .shstrtab.

HighAddresses ==
  {DataBaseAddress, Sub32(LoadBaseAddress, Word(16)), LoadBaseAddress,
   Add32(LoadBaseAddress, Word(128))}

HighSizes == {4, 32, 256}

HighEntry(nm, addr, size) ==
  Entry(nm, "SHT_PROGBITS", {"SHF_ALLOC", "SHF_WRITE"}, addr, 256, Raw(size, 6))

AlignedStrTabEntry(size, align) ==
  [Entry(".strtab", "SHT_STRTAB", {}, Zero32, 640, Raw(size, 2))
     EXCEPT !.addralign = align]

LoaderDisks ==
  {GoodDisk(<<NullEntry, HighEntry(".a", addrA, sizeA),
              HighEntry(".b", addrB, sizeB),
              AlignedStrTabEntry(strSize, strAlign),
              AlignedSymTabEntry(<<Symbol("STT_OBJECT", Zero32)>>, symAlign),
              ShStrTabEntry(".shstrtab")>>) :
     addrA \in HighAddresses, sizeA \in HighSizes,
     addrB \in HighAddresses, sizeB \in HighSizes,
     strSize \in {4, 32}, strAlign \in {1, 16}, symAlign \in {1, 16}}

\* --- runs that fail in the loader, the deflater or the writer, and files
\* whose section-name string table has another name.

HeaderChoices ==
  {GoodHeader(0, 0),
   [GoodHeader(0, 0) EXCEPT !.magic = "other"],
   [GoodHeader(0, 0) EXCEPT !.fileClass = "ELFCLASS64"],
   [GoodHeader(0, 0) EXCEPT !.encoding = "ELFDATA2LSB"],
   [GoodHeader(0, 0) EXCEPT !.machine = "EM_ARM"],
   [GoodHeader(0, 0) EXCEPT !.elfVersion = "EV_NONE"]}

EnvChoices ==
  [openIn : BOOLEAN, zOk : BOOLEAN, openOut : BOOLEAN, isRpl : BOOLEAN]

PlainSections(strtabName) ==
  <<NullEntry, TextEntry, DataEntry, ShStrTabEntry(strtabName)>>

PlainInputs ==
  {[disk |-> Disk(h, PlainSections(nm), 3), env |-> e] :
     h \in HeaderChoices, nm \in {".shstrtab", ".strtab"}, e \in EnvChoices}

Inputs ==
  {[disk |-> d, env |-> GoodEnv] :
     d \in RelocDisks \cup AddrDisks \cup LayoutDisks \cup SymTabDisks
             \cup LoaderDisks}
    \cup PlainInputs

NoSnap == [s \in RANGE(Stages) |-> <<>>]

Init ==
  /\ \E input \in Inputs : disk = input.disk /\ env = input.env
  /\ elf = NoFile
  /\ pc = "readElf"
  /\ exitCode = "none"
  /\ out = NoOutput
  /\ diag = <<>>
  /\ ran = <<>>
  /\ snap = NoSnap

Spec == Init /\ [][Next]_vars

---------------------------------------------------------------------------
(* Properties *)

\* The last stage that ran is stage: elf is what the stage left, and
\* snap[stage] the sections it started from.
JustRan(stage) == ran # <<>> /\ ran[Len(ran)] = stage

Succeeded(stage) == JustRan(stage) /\ pc # "exit"

RelaSections(sections) ==
  {k \in DOMAIN sections : sections[k].type = "SHT_RELA"}

\* The entries i of RELA section k that are REL32 and name a symbol of the
\* section's symbol table.
Convertible(sections, k) ==
  {i \in DOMAIN Rels(sections[k].data) :
     /\ Rels(sections[k].data)[i].type = "R_PPC_REL32"
     /\ Rels(sections[k].data)[i].sym
          < NumSymbols(At(sections, sections[k].link).data)}

Dangling(sections, k) ==
  {i \in DOMAIN Rels(sections[k].data) :
     /\ Rels(sections[k].data)[i].type = "R_PPC_REL32"
     /\ Rels(sections[k].data)[i].sym
          >= NumSymbols(At(sections, sections[k].link).data)}

UnsupportedTypes(sections) ==
  UNION {{Rels(sections[k].data)[i].type : i \in DOMAIN Rels(sections[k].data)} :
           k \in RelaSections(sections)}
    \ (ValidRelocations \cup {"R_PPC_REL32"})

\* w + 2 modulo 2^32, case by case.
PlusTwo(w) ==
  IF w = <<65535, 65534>> THEN <<0, 0>>
  ELSE IF w = <<65535, 65535>> THEN <<0, 1>>
  ELSE IF w[2] >= 65534 THEN <<w[1] + 1, w[2] - 65534>>
  ELSE <<w[1], w[2] + 2>>

\* C1: after fixRelocations, in every RELA section every input REL32 entry
\* (offset o, addend a, in-range symbol s) is (o, a, GHS_REL16_HI, s) at
\* its original position, and the payload holds, after all the original
\* entries, an entry (o + 2, a + 2, GHS_REL16_LO, s), the additions
\* wrapping at 32 bits; the appended entries are one per such REL32, in
\* the order of their REL32.
C1_Rel32Pair ==
  JustRan("fixRelocations") =>
    \A k \in RelaSections(snap["fixRelocations"]) :
      LET before == Rels(snap["fixRelocations"][k].data)
          after == Rels(elf.sections[k].data)
          conv == Convertible(snap["fixRelocations"], k)
      IN  /\ Len(after) = Len(before) + Cardinality(conv)
          /\ \A i \in conv :
               LET j == Len(before) + Cardinality({c \in conv : c <= i})
               IN  /\ after[i] = [sym |-> before[i].sym,
                                  type |-> "R_PPC_GHS_REL16_HI",
                                  addend |-> before[i].addend,
                                  offset |-> before[i].offset]
                   /\ after[j] = [sym |-> before[i].sym,
                                  type |-> "R_PPC_GHS_REL16_LO",
                                  addend |-> PlusTwo(before[i].addend),
                                  offset |-> PlusTwo(before[i].offset)]

\* A RELA section of two REL32 entries with in-range symbols, one of them
\* with addend 0xFFFFFFFE, has been rewritten.
C1_Witness ==
  /\ JustRan("fixRelocations")
  /\ \E k \in RelaSections(snap["fixRelocations"]) :
       /\ Convertible(snap["fixRelocations"], k) = {1, 2}
       /\ Rels(snap["fixRelocations"][k].data)[1].addend = <<65535, 65534>>
       /\ Len(Rels(elf.sections[k].data)) = 4
       /\ Rels(elf.sections[k].data)[3].addend = <<0, 0>>

\* C6: when fixRelocations returns success, every relocation entry of
\* every RELA section has an accepted type or is GHS_REL16_HI or
\* GHS_REL16_LO; no REL32 is left.
C6_OnlyAcceptedTypes ==
  Succeeded("fixRelocations") =>
    \A k \in RelaSections(elf.sections) :
      \A i \in DOMAIN Rels(elf.sections[k].data) :
        Rels(elf.sections[k].data)[i].type
          \in ValidRelocations \cup {"R_PPC_GHS_REL16_HI", "R_PPC_GHS_REL16_LO"}

\* fixRelocations succeeded on an input with REL32 entries and an accepted
\* entry.
C6_Witness ==
  /\ Succeeded("fixRelocations")
  /\ \E k \in RelaSections(elf.sections) :
       /\ Convertible(snap["fixRelocations"], k) # {}
       /\ \E i \in DOMAIN Rels(elf.sections[k].data) :
            Rels(elf.sections[k].data)[i].type = "R_PPC_ADDR32"

\* C7: fixRelocations walks every entry of every RELA section whatever it
\* meets (every REL32 with an in-range symbol is rewritten, every REL32
\* without one reported), prints exactly one diagnostic per distinct
\* unsupported type over all RELA sections, and fails, after the walk, if
\* and only if it met an unsupported type or a REL32 whose symbol index is
\* out of range.
C7_UnsupportedReported ==
  JustRan("fixRelocations") =>
    LET before == snap["fixRelocations"]
        bad == UnsupportedTypes(before)
        dangling == UNION {{<<k, i>> : i \in Dangling(before, k)} :
                             k \in RelaSections(before)}
        failed == pc = "exit" /\ exitCode = "-1"
    IN  /\ \A t \in bad :
             Cardinality({j \in DOMAIN diag : diag[j] = Unsupported(t)}) = 1
        /\ \A j \in DOMAIN diag :
             diag[j].msg = Unsupported("").msg => diag[j].type \in bad
        /\ \A k \in RelaSections(before) :
             /\ Len(Rels(elf.sections[k].data))
                  = Len(Rels(before[k].data)) + Cardinality(Convertible(before, k))
             /\ \A i \in Convertible(before, k) :
                  Rels(elf.sections[k].data)[i].type = "R_PPC_GHS_REL16_HI"
        /\ Cardinality({j \in DOMAIN diag : diag[j].msg = NoSymbol(0).msg})
             = Cardinality(dangling)
        /\ failed <=> (bad # {} \/ dangling # {})
        /\ failed => /\ diag[Len(diag)] = Failed("fixRelocations")
                     /\ \A j \in 1..(Len(diag) - 1) : diag[j] # Failed("fixRelocations")

\* The first RELA section starts with an unsupported entry followed by a
\* REL32 that was still rewritten, and a later RELA section holds the same
\* unsupported type: one diagnostic, and the stage failed.
C7_Witness ==
  /\ JustRan("fixRelocations")
  /\ pc = "exit"
  /\ \E k, m \in RelaSections(snap["fixRelocations"]) :
       /\ k < m
       /\ Rels(snap["fixRelocations"][k].data)[1].type = "R_PPC_GOT16"
       /\ 2 \in Convertible(snap["fixRelocations"], k)
       /\ Rels(elf.sections[k].data)[2].type = "R_PPC_GHS_REL16_HI"
       /\ Rels(snap["fixRelocations"][m].data)[1].type = "R_PPC_GOT16"
  /\ Cardinality({j \in DOMAIN diag : diag[j] = Unsupported("R_PPC_GOT16")}) = 1

\* The sections fixLoaderVirtualAddresses moves, in the order it moves them.
Moved(sections) ==
  {k \in DOMAIN sections : sections[k].type \in {"SHT_SYMTAB", "SHT_STRTAB"}}

\* The symbols relocateSection looks at: <<k, i>> is symbol i of SYMTAB
\* section k.
RelocatableSymbols(sections) ==
  UNION {{<<k, i>> : i \in {i \in DOMAIN Syms(sections[k].data) :
                              Syms(sections[k].data)[i].type
                                \in {"STT_OBJECT", "STT_FUNC", "STT_SECTION"}}} :
           k \in {k \in DOMAIN sections : sections[k].type = "SHT_SYMTAB"}}

OldSize(section) ==
  IF Size(section.data) # 0 THEN Size(section.data) ELSE section.size

\* oldAddr <= v <= oldAddr + size, for the inputs of the model, where
\* oldAddr + size stays below 2^32.
InRangeOf(v, section) ==
  /\ Le32(section.addr, v)
  /\ Le32(v, Add32(section.addr, Word(OldSize(section))))

\* The original statement of C2: for every moved section S and every
\* object, function or section symbol whose input value lay in S's old
\* range, the output value is old_value - S.oldAddr + S.newAddr.
C2_EveryMovedSection ==
  JustRan("fixLoaderVirtualAddresses") =>
    LET before == snap["fixLoaderVirtualAddresses"]
    IN  \A S \in Moved(before) :
          \A y \in RelocatableSymbols(before) :
            LET v == Syms(before[y[1]].data)[y[2]].value
            IN  InRangeOf(v, before[S]) =>
                  Syms(elf.sections[y[1]].data)[y[2]].value
                    = Add32(Sub32(v, before[S].addr), elf.sections[S].addr)

\* C2 as amended: an object, function or section symbol whose input value
\* lay in the old range of a moved section has the output value
\* old_value - S.oldAddr + S.newAddr for the first such section S in
\* section order, provided that value lies in the old range of no section
\* moved after S; one whose input value lay in no moved section's old
\* range keeps its value.
C2_FirstMovedSection ==
  JustRan("fixLoaderVirtualAddresses") =>
    LET before == snap["fixLoaderVirtualAddresses"]
    IN  \A y \in RelocatableSymbols(before) :
          LET v == Syms(before[y[1]].data)[y[2]].value
              holders == {S \in Moved(before) : InRangeOf(v, before[S])}
              output == Syms(elf.sections[y[1]].data)[y[2]].value
          IN  IF holders = {} THEN output = v
              ELSE LET S == Min(holders)
                       t == Add32(Sub32(v, before[S].addr), elf.sections[S].addr)
                   IN  (\A L \in Moved(before) : L > S => ~InRangeOf(t, before[L]))
                         => output = t

\* Three moved sections had old address 0, an object symbol of value 0 lay
\* in the old range of all of them and now points to the start of the
\* first one, which is not where the two others went.
C2_Witness ==
  /\ JustRan("fixLoaderVirtualAddresses")
  /\ LET before == snap["fixLoaderVirtualAddresses"]
     IN  /\ Cardinality({S \in Moved(before) : before[S].addr = Zero32}) = 3
         /\ \E y \in RelocatableSymbols(before) :
              /\ Syms(before[y[1]].data)[y[2]] = Symbol("STT_OBJECT", Zero32)
              /\ Syms(elf.sections[y[1]].data)[y[2]].value
                   = elf.sections[Min(Moved(before))].addr
              /\ \A S \in Moved(before) \ {Min(Moved(before))} :
                   /\ InRangeOf(Zero32, before[S])
                   /\ elf.sections[S].addr # elf.sections[Min(Moved(before))].addr

\* The phase (1..7, in the order of PhaseOrder) whose predicate a section
\* satisfies, 0 when it satisfies none.
PhaseOf(section) ==
  IF \E p \in DOMAIN PhaseOrder : Matches(PhaseOrder[p], section)
  THEN Min({p \in DOMAIN PhaseOrder : Matches(PhaseOrder[p], section)})
  ELSE 0

WithPayload(sections) == {k \in DOMAIN sections : Size(sections[k].data) # 0}

\* C3: after a successful calculateSectionOffsets every section that is
\* neither NULL nor NOBITS has a non-zero offset; the byte ranges
\* [offset, offset + payload length) of the sections with a payload are
\* pairwise disjoint and start after the section-header table; and a
\* section of an earlier phase ends at or before the start of a section of
\* a later phase.
C3_LayoutDisjointOrdered ==
  Succeeded("calculateSectionOffsets") =>
    LET secs == elf.sections
        tableEnd == elf.header.shoff + Len(secs) * SizeofSectionHeader
        end(k) == secs[k].offset + Size(secs[k].data)
    IN  /\ \A k \in DOMAIN secs :
             secs[k].type \notin {"SHT_NULL", "SHT_NOBITS"} => secs[k].offset # 0
        /\ \A k \in WithPayload(secs) : secs[k].offset >= tableEnd
        /\ \A k, m \in WithPayload(secs) :
             k # m => end(k) <= secs[m].offset \/ end(m) <= secs[k].offset
        /\ \A k, m \in WithPayload(secs) :
             /\ PhaseOf(secs[k]) # 0
             /\ PhaseOf(secs[k]) < PhaseOf(secs[m]) => end(k) <= secs[m].offset

\* C4: in the output of a successful run the CRCS payload has shnum
\* entries, the entry of the CRCS section itself is zero and every other
\* entry is the CRC-32 of the payload its section had when deflateSections
\* started (zero for an empty payload).
C4_CrcTable ==
  out.written =>
    LET secs == out.sections
        self == Len(secs) - 1
        table == secs[self].data.crcs
        pre == snap["deflateSections"]
    IN  /\ secs[self].type = "SHT_RPL_CRCS"
        /\ Len(table) = out.header.shnum
        /\ Len(table) = Len(secs)
        /\ table[self] = ZeroCrc
        /\ \A i \in DOMAIN secs \ {self} :
             /\ Size(pre[i].data) = 0 => table[i] = ZeroCrc
             /\ Size(pre[i].data) # 0 => table[i] = [crc |-> pre[i].data]

\* A file was written in which a section is deflated, the table entry of
\* that section is the CRC of what it held before, and FILEINFO, after the
\* CRCS section, has a non-zero entry.
C4_Witness ==
  /\ out.written
  /\ \E i \in DOMAIN out.sections :
       /\ out.sections[i].data.kind = "deflated"
       /\ out.sections[Len(out.sections) - 1].data.crcs[i]
            = [crc |-> out.sections[i].data.orig]
  /\ out.sections[Len(out.sections) - 1].data.crcs[Len(out.sections)] # ZeroCrc
  /\ \E i \in DOMAIN out.sections :
       /\ Size(snap["deflateSections"][i].data) = 0
       /\ i < Len(out.sections) - 1

\* C5: in the output of a successful run every section whose header has
\* the DEFLATED flag holds the 4-byte length of its payload before
\* deflateSections followed by the deflate stream of that payload, and its
\* header size is the length of that payload (sentinel included).
C5_DeflatedFlagMeansDeflated ==
  out.written =>
    \A k \in DOMAIN out.sections :
      "SHF_DEFLATED" \in out.sections[k].flags =>
        LET pre == snap["deflateSections"][k].data
            data == out.sections[k].data
        IN  /\ data.kind = "deflated"
            /\ data.inflated = Size(pre)
            /\ data.orig = pre
            /\ out.sections[k].size = Size(data)

\* C8: the stages run in the fixed order, each once; a run that has not
\* returned is at the stage after the last one that ran; a failed stage is
\* the last stage that ran, the exit code is then -1 and no file is
\* written; the exit code is 0 exactly when all nine stages ran and the
\* writer wrote the file.
C8_PipelineOrder ==
  /\ Len(ran) <= Len(Stages)
  /\ ran = SubSeq(Stages, 1, Len(ran))
  /\ pc # "exit" => /\ exitCode = "none"
                    /\ Len(ran) < Len(Stages)
                    /\ pc = Stages[Len(ran) + 1]
                    /\ \A j \in DOMAIN diag : diag[j].msg # Failed("").msg
  /\ pc = "exit" => exitCode \in {"0", "-1"}
  /\ exitCode = "-1" => /\ pc = "exit"
                        /\ ~out.written
                        /\ diag # <<>>
                        /\ diag[Len(diag)] = Failed(ran[Len(ran)])
  /\ exitCode = "0" => /\ ran = Stages
                       /\ out.written
                       /\ \A j \in DOMAIN diag : diag[j].msg # Failed("").msg
  /\ out.written => exitCode = "0"
  /\ (\E j \in DOMAIN diag : diag[j].msg = Failed("").msg) => exitCode = "-1"
  /\ (JustRan("readElf") /\ ~env.openIn) => exitCode = "-1"
  /\ (JustRan("fixRelocations") /\ UnsupportedTypes(snap["fixRelocations"]) # {})
       => exitCode = "-1"
  /\ (JustRan("calculateSectionOffsets") /\ Unplaced(elf.sections) # {})
       => exitCode = "-1"
  /\ (JustRan("writeRpl") /\ ~env.openOut) => exitCode = "-1"

\* A run stopped in calculateSectionOffsets after the eight first stages:
\* the writer did not run, no file was written, the exit code is -1.
C8_Witness ==
  /\ pc = "exit"
  /\ exitCode = "-1"
  /\ ran = SubSeq(Stages, 1, 8)
  /\ ~out.written

\* C9: once fixFileHeader has run, shstrndx is the index of a section
\* named .shstrtab, and in a written file shnum is the number of sections.
C9_ShStrNdx ==
  /\ "fixFileHeader" \in RANGE(ran) =>
       /\ elf.header.shstrndx < Len(elf.sections)
       /\ At(elf.sections, elf.header.shstrndx).name = ".shstrtab"
  /\ out.written =>
       /\ out.header.shnum = Len(out.sections)
       /\ out.header.shstrndx < Len(out.sections)
       /\ At(out.sections, out.header.shstrndx).name = ".shstrtab"

\* The size C10 gives a section: its payload length, the header's size
\* for NOBITS.
ClaimedSize(section) ==
  IF section.type = "SHT_NOBITS" THEN section.size ELSE Size(section.data)

InCodeWindow(section) ==
  Le32(CodeBaseAddress, section.addr) /\ Lt32(section.addr, DataBaseAddress)

InDataWindow(section) ==
  Le32(DataBaseAddress, section.addr) /\ Lt32(section.addr, LoadBaseAddress)

InLoadWindow(section) == Le32(LoadBaseAddress, section.addr)

InTemp(section) ==
  /\ section.addr = Zero32
  /\ section.type \notin {"SHT_RPL_CRCS", "SHT_RPL_FILEINFO"}

\* The maximum of addr + size - base over the sections of M, 0 for none.
MaxExtent(sections, M, base) ==
  LET ext(k) == Sub32(Add32(sections[k].addr, Word(ClaimedSize(sections[k]))), base)
  IN  IF M = {} THEN Zero32
      ELSE ext(CHOOSE k \in M : \A m \in M : Le32(ext(m), ext(k)))

RECURSIVE TempSum(_, _)
TempSum(sections, k) ==
  IF k = 0 THEN 0
  ELSE TempSum(sections, k - 1)
         + (IF InTemp(sections[k]) THEN ClaimedSize(sections[k]) + 128 ELSE 0)

\* C10: the sizes of the FILEINFO record generateFileInfoSection appends
\* are the aligned maxima of addr + size - base over the sections of the
\* code, data and load windows and the sum of size + 128 over the temp
\* sections, size being the payload length (the header's size for NOBITS).
C10_FileInfoSizes ==
  JustRan("generateFileInfoSection") =>
    LET before == snap["generateFileInfoSection"]
        info == elf.sections[Len(elf.sections)].data.info
        members(P(_)) == {k \in DOMAIN before : P(before[k])}
    IN  /\ info.textSize
             = align_up32(MaxExtent(before, members(InCodeWindow), CodeBaseAddress), 32)
        /\ info.dataSize
             = align_up32(MaxExtent(before, members(InDataWindow), DataBaseAddress), 4096)
        /\ info.loadSize
             = align_up32(MaxExtent(before, members(InLoadWindow), LoadBaseAddress), 4)
        /\ info.tempSize = Word(TempSum(before, Len(before)))

\* The inputs of C11: besides null sections, one .text (EXECINSTR and
\* ALLOC, at 0x02000000, 64 bytes), one SYMTAB section and .shstrtab, and
\* no section at or above 0xC0000000.
TextSymTabShStrTab(sections) ==
  LET real == {k \in DOMAIN sections : sections[k].type # "SHT_NULL"}
      of(type) == {k \in real : sections[k].type = type}
  IN  /\ Cardinality(real) = 3
      /\ \E t \in of("SHT_PROGBITS") :
           /\ sections[t].name = ".text"
           /\ sections[t].flags = {"SHF_EXECINSTR", "SHF_ALLOC"}
           /\ sections[t].addr = CodeBaseAddress
           /\ Size(sections[t].data) = 64
      /\ Cardinality(of("SHT_SYMTAB")) = 1
      /\ \E t \in of("SHT_STRTAB") : sections[t].name = ".shstrtab"
      /\ \A k \in DOMAIN sections : Lt32(sections[k].addr, LoadBaseAddress)

TheSymTab(sections) ==
  CHOOSE k \in DOMAIN sections : sections[k].type = "SHT_SYMTAB"

TheShStrTab(sections) ==
  CHOOSE k \in DOMAIN sections : sections[k].name = ".shstrtab"

\* The original statement of C11: for every such input, in any section
\* order, after fixLoaderVirtualAddresses the SYMTAB section is at
\* align_up(0xC0000000, addralign) and has the ALLOC flag.
C11_SymTabAtLoadBase ==
  (/\ JustRan("fixLoaderVirtualAddresses")
   /\ TextSymTabShStrTab(snap["fixLoaderVirtualAddresses"])) =>
    LET symtab == elf.sections[TheSymTab(elf.sections)]
    IN  /\ symtab.addr = align_up32(LoadBaseAddress, symtab.addralign)
        /\ "SHF_ALLOC" \in symtab.flags

\* C11 as amended: for every such input, in any section order, after
\* fixLoaderVirtualAddresses the SYMTAB section is at
\* align_up(0xC0000000 + n, addralign), where n is the payload size of
\* .shstrtab when .shstrtab precedes the SYMTAB section in section order
\* and 0 otherwise, and it has the ALLOC flag.
C11_SymTabAfterEarlierTables ==
  (/\ JustRan("fixLoaderVirtualAddresses")
   /\ TextSymTabShStrTab(snap["fixLoaderVirtualAddresses"])) =>
    LET before == snap["fixLoaderVirtualAddresses"]
        s == TheSymTab(before)
        t == TheShStrTab(before)
        n == IF t < s THEN Size(before[t].data) ELSE 0
    IN  /\ elf.sections[s].addr
             = align_up32(Add32(LoadBaseAddress, Word(n)), before[s].addralign)
        /\ "SHF_ALLOC" \in elf.sections[s].flags

\* fixLoaderVirtualAddresses ran on such an input in which the 40-byte
\* .shstrtab precedes a SYMTAB section of alignment 32, which is now at
\* 0xC0000040 with the ALLOC flag.
C11_Witness ==
  /\ JustRan("fixLoaderVirtualAddresses")
  /\ TextSymTabShStrTab(snap["fixLoaderVirtualAddresses"])
  /\ LET before == snap["fixLoaderVirtualAddresses"]
         s == TheSymTab(before)
     IN  /\ TheShStrTab(before) < s
         /\ Size(before[TheShStrTab(before)].data) = 40
         /\ before[s].addralign = 32
         /\ "SHF_ALLOC" \notin before[s].flags
         /\ elf.sections[s].addr = Add32(LoadBaseAddress, Word(64))
         /\ "SHF_ALLOC" \in elf.sections[s].flags

\* The greatest of a set of 32-bit words.
Max32(S) == CHOOSE x \in S : \A y \in S : Le32(y, x)

\* max(0xC0000000, max over all sections of addr + payload size), for the
\* inputs of the model, where addr + payload size stays below 2^32.
MaxEnd(sections) ==
  Max32({LoadBaseAddress}
          \cup {Add32(sections[k].addr, Word(Size(sections[k].data))) :
                  k \in DOMAIN sections})

\* C12: in fixLoaderVirtualAddresses, before any section is moved, loadMax
\* is max(0xC0000000, max over all sections of addr + payload size), in
\* every section order; the first section moved is therefore at
\* align_up of that maximum to its addralign.
C12_LoadMaxIsMaxEnd ==
  JustRan("fixLoaderVirtualAddresses") =>
    LET before == snap["fixLoaderVirtualAddresses"]
    IN  /\ InitialLoadMax(before) = MaxEnd(before)
        /\ Moved(before) # {} =>
             elf.sections[Min(Moved(before))].addr
               = align_up32(MaxEnd(before),
                            before[Min(Moved(before))].addralign)

\* The phases whose predicate a section satisfies.
PhasesOf(section) ==
  {p \in DOMAIN PhaseOrder : Matches(PhaseOrder[p], section)}

\* C13: after a successful calculateSectionOffsets every section with a
\* payload satisfied the predicate of exactly one phase, whatever its
\* type and flags, and its offset is one the phases hand out, at or after
\* the first offset of the run, not the one of the input file.
C13_PlacedByOnePhase ==
  Succeeded("calculateSectionOffsets") =>
    \A k \in WithPayload(elf.sections) :
      /\ Cardinality(PhasesOf(snap["calculateSectionOffsets"][k])) = 1
      /\ elf.sections[k].offset >= FirstOffset(elf)

\* addr + payload size of a section, for the inputs of the model, where it
\* stays below 2^32.
EndAddress(section) == Add32(section.addr, Word(Size(section.data)))

\* C14: after fixLoaderVirtualAddresses each relocated SYMTAB or STRTAB
\* section starts at or after the end addr + payload size of every section
\* relocated before it, so that their address ranges are pairwise
\* disjoint, whatever the payload sizes and the addralign values.
C14_MovedRangesDisjoint ==
  JustRan("fixLoaderVirtualAddresses") =>
    \A k, m \in Moved(snap["fixLoaderVirtualAddresses"]) :
      k < m => Le32(EndAddress(elf.sections[k]), elf.sections[m].addr)

====
